---------------------------- MODULE Spec2Model ----------------------------
(***************************************************************************)
(* A model of bench_fastq/utils.py: parse_elapsed,                         *)
(* recursive_timedelta_to_totsec and the line scanner parse_compress.      *)
(*                                                                         *)
(* Python values are modelled as follows.                                  *)
(*   str        a TLA+ string (Len, SubSeq and \o act on strings)          *)
(*   float      an IEEE-754 binary64 value [m, e] = m * 2^e, with the      *)
(*              53-bit mantissa m held in three 24-bit limbs               *)
(*   timedelta  [t |-> "timedelta", ms |-> whole milliseconds]             *)
(*   dict       a function from tagged keys (<<"s", str>> or <<"i", int>>) *)
(*              to tagged values [t |-> ..., v |-> ...]                    *)
(* A value that an expression of the source uses more than once is passed  *)
(* as a parameter to the operator that models the statements after it.     *)
(***************************************************************************)
EXTENDS Integers, Sequences, FiniteSets, TLC

VARIABLES
    \* parse_elapsed: the argument and what the call gave
    elapsed, elapsed_dt,
    \* recursive_timedelta_to_totsec: the argument, the result, and the result
    \* of a second call on the first result
    dobj, dobj_converted, dobj_again,
    \* parse_compress: where the call is ("call", "scan", "done", "raised"),
    \* its arguments (whether fin is a file; fout), its local variables, the
    \* number of lines read, the exception that ended it, the value returned,
    \* the file at fout, what was printed to sys.stderr, and the branch of the
    \* if/elif chain that took the last line
    pc, fin_isfile, fout, locals, nread, error, ret, outfile, stderr, branch,
    \* whether a 'Testing' line was read while a capture flag of an earlier
    \* block was still set
    stale,
    \* the writer of a transcript in the benchmark script's format: where it
    \* is in the format, and the structure its lines describe
    gen, expected

(***************************************************************************)
(* Strings: the str and os.path functions the source calls.                *)
(***************************************************************************)
Char(s, i) == SubSeq(s, i, i)

DigitChars == {"0", "1", "2", "3", "4", "5", "6", "7", "8", "9"}

DigitVal(c) ==
    CASE c = "0" -> 0 [] c = "1" -> 1 [] c = "2" -> 2 [] c = "3" -> 3
      [] c = "4" -> 4 [] c = "5" -> 5 [] c = "6" -> 6 [] c = "7" -> 7
      [] c = "8" -> 8 [] c = "9" -> 9

\* str.startswith(p)
StartsWith(s, p) == Len(s) >= Len(p) /\ SubSeq(s, 1, Len(p)) = p

\* `sub in s`
Contains(s, sub) ==
    \E i \in 1..(Len(s) - Len(sub) + 1) : SubSeq(s, i, i + Len(sub) - 1) = sub

\* str.find(c, from) for a one-character c, 1-based; 0 when c does not occur
RECURSIVE Find(_, _, _)
Find(s, c, from) ==
    IF from > Len(s) THEN 0
    ELSE IF Char(s, from) = c THEN from
    ELSE Find(s, c, from + 1)

\* str.rfind(c) for a one-character c, 1-based; 0 when c does not occur
RECURSIVE RFind(_, _, _)
RFind(s, c, upto) ==
    IF upto < 1 THEN 0
    ELSE IF Char(s, upto) = c THEN upto
    ELSE RFind(s, c, upto - 1)

\* str.split(c) for a one-character separator: empty fields are kept
RECURSIVE Split(_, _)
SplitAt(s, c, i) ==
    IF i = 0 THEN <<s>>
    ELSE <<SubSeq(s, 1, i - 1)>> \o Split(SubSeq(s, i + 1, Len(s)), c)

Split(s, c) == SplitAt(s, c, Find(s, c, 1))

Whitespace == {" ", "\t"}

\* str.lstrip(chars), str.rstrip(chars), str.strip(chars): chars is a set
RECURSIVE LStrip(_, _)
LStrip(s, chars) ==
    IF Len(s) > 0 /\ Char(s, 1) \in chars
    THEN LStrip(SubSeq(s, 2, Len(s)), chars)
    ELSE s

RECURSIVE RStrip(_, _)
RStrip(s, chars) ==
    IF Len(s) > 0 /\ Char(s, Len(s)) \in chars
    THEN RStrip(SubSeq(s, 1, Len(s) - 1), chars)
    ELSE s

Strip(s, chars) == LStrip(RStrip(s, chars), chars)

\* length of the longest prefix of s without a whitespace character
RECURSIVE WordLen(_, _)
WordLen(s, i) ==
    IF i > Len(s) \/ Char(s, i) \in Whitespace THEN i - 1
    ELSE WordLen(s, i + 1)

\* str.split() without argument: runs of whitespace separate, no empty fields
RECURSIVE SplitWS(_)
SplitWord(t, n) ==
    IF Len(t) = 0 THEN <<>>
    ELSE <<SubSeq(t, 1, n)>> \o SplitWS(SubSeq(t, n + 1, Len(t)))

SplitStripped(t) == SplitWord(t, WordLen(t, 1))

SplitWS(s) == SplitStripped(LStrip(s, Whitespace))

\* os.path.basename
Basename(p) == SubSeq(p, RFind(p, "/", Len(p)) + 1, Len(p))

\* the first index in from..(dot - 1) whose character is not a dot, else 0
RECURSIVE FirstNonDot(_, _, _)
FirstNonDot(p, from, dot) ==
    IF from >= dot THEN 0
    ELSE IF Char(p, from) # "." THEN from
    ELSE FirstNonDot(p, from + 1, dot)

\* genericpath._splitext: <<root, ext>>; the leading dots of the base name
\* start no extension
SplitextAt(p, sepIndex, dotIndex) ==
    IF dotIndex > sepIndex /\ FirstNonDot(p, sepIndex + 1, dotIndex) # 0
    THEN <<SubSeq(p, 1, dotIndex - 1), SubSeq(p, dotIndex, Len(p))>>
    ELSE <<p, "">>

\* os.path.splitext
Splitext(p) == SplitextAt(p, RFind(p, "/", Len(p)), RFind(p, ".", Len(p)))

RECURSIVE AllDigits(_)
AllDigits(s) ==
    Len(s) = 0 \/ (Char(s, 1) \in DigitChars /\ AllDigits(SubSeq(s, 2, Len(s))))

\* the number a string of digits writes
RECURSIVE DigitsVal(_, _)
DigitsVal(s, acc) ==
    IF Len(s) = 0 THEN acc
    ELSE DigitsVal(SubSeq(s, 2, Len(s)), 10 * acc + DigitVal(Char(s, 1)))

\* int(s) of a str: surrounding whitespace and one sign are accepted
Unsigned(t) ==
    IF Len(t) > 0 /\ Char(t, 1) \in {"-", "+"} THEN SubSeq(t, 2, Len(t)) ELSE t

DigitsOk(t) == Len(t) > 0 /\ AllDigits(t)

IntOk(s) == DigitsOk(Unsigned(Strip(s, Whitespace)))

SignedVal(t) ==
    IF Len(t) > 0 /\ Char(t, 1) = "-"
    THEN 0 - DigitsVal(Unsigned(t), 0)
    ELSE DigitsVal(Unsigned(t), 0)

IntVal(s) == SignedVal(Strip(s, Whitespace))

(***************************************************************************)
(* Floats: IEEE-754 binary64 with round to nearest, ties to even.  A       *)
(* mantissa is three limbs of 24 bits, least significant first.            *)
(***************************************************************************)
Limb == 2^24

Zero3 == <<0, 0, 0>>

N3(n) == <<n % Limb, (n \div Limb) % Limb, 0>>

Shl1(x) ==
    <<(2 * x[1]) % Limb,
      (2 * x[2] + x[1] \div (Limb \div 2)) % Limb,
      (2 * x[3] + x[2] \div (Limb \div 2)) % Limb>>

Shr1(x) ==
    <<x[1] \div 2 + (x[2] % 2) * (Limb \div 2),
      x[2] \div 2 + (x[3] % 2) * (Limb \div 2),
      x[3] \div 2>>

\* x * 2^k and x \div 2^k for 0 <= k < 24
ShlBits(x, k) ==
    LET p == 2^k
        q == 2^(24 - k)
    IN  <<(x[1] % q) * p,
          (x[2] % q) * p + x[1] \div q,
          (x[3] % q) * p + x[2] \div q>>

ShrBits(x, k) ==
    LET p == 2^k
        q == 2^(24 - k)
    IN  <<x[1] \div p + (x[2] % p) * q,
          x[2] \div p + (x[3] % p) * q,
          x[3] \div p>>

RECURSIVE ShlN(_, _)
ShlN(x, n) ==
    IF n >= 24 THEN ShlN(<<0, x[1], x[2]>>, n - 24) ELSE ShlBits(x, n)

RECURSIVE ShrN(_, _)
ShrN(x, n) ==
    IF x = Zero3 THEN x
    ELSE IF n >= 24 THEN ShrN(<<x[2], x[3], 0>>, n - 24)
    ELSE ShrBits(x, n)

\* the number of binary digits of n
RECURSIVE BitLen(_)
BitLen(n) == IF n = 0 THEN 0 ELSE 1 + BitLen(n \div 2)

BitLen3(x) ==
    IF x[3] > 0 THEN 48 + BitLen(x[3])
    ELSE IF x[2] > 0 THEN 24 + BitLen(x[2])
    ELSE BitLen(x[1])

Geq3(x, y) ==
    \/ x[3] > y[3]
    \/ x[3] = y[3] /\ x[2] > y[2]
    \/ x[3] = y[3] /\ x[2] = y[2] /\ x[1] >= y[1]

\* x - y for x >= y, with the borrows b1 and b2 of the two low limbs
Sub3Borrow(x, y, b1, b2) ==
    <<x[1] - y[1] + b1 * Limb,
      x[2] - y[2] - b1 + b2 * Limb,
      x[3] - y[3] - b2>>

Sub3(x, y) ==
    Sub3Borrow(x, y, IF x[1] < y[1] THEN 1 ELSE 0,
        IF x[2] < y[2] + (IF x[1] < y[1] THEN 1 ELSE 0) THEN 1 ELSE 0)

Inc3(x) ==
    IF x[1] + 1 < Limb THEN <<x[1] + 1, x[2], x[3]>>
    ELSE IF x[2] + 1 < Limb THEN <<0, x[2] + 1, x[3]>>
    ELSE <<0, 0, x[3] + 1>>

\* 2^52 <= x: the mantissa holds its 53 bits
Full53(x) == x[3] >= 16

FZero == [m |-> Zero3, e |-> 0]

\* a rounded mantissa that reached 2^53 is halved
Renorm(r, e) ==
    IF r[3] >= 32 THEN [m |-> Shr1(r), e |-> e + 1] ELSE [m |-> r, e |-> e]

\* the mantissa q with the remainder rem2/den2 of a half unit in the last
\* place: round to nearest, ties to even
RoundEven(q, rem2, den2, e) ==
    IF ~Geq3(den2, rem2) \/ (rem2 = den2 /\ q[1] % 2 = 1)
    THEN Renorm(Inc3(q), e)
    ELSE Renorm(q, e)

\* long division, one binary digit a step: q the digits so far, r the
\* remainder, d the divisor, e the exponent of q's last digit
DivBit(q2, r2, d, e) ==
    IF Geq3(r2, d)
    THEN [q |-> <<q2[1] + 1, q2[2], q2[3]>>, r |-> Sub3(r2, d), e |-> e]
    ELSE [q |-> q2, r |-> r2, e |-> e]

DivStep(s, d) ==
    IF Full53(s.q) THEN s ELSE DivBit(Shl1(s.q), Shl1(s.r), d, s.e - 1)

DivStep8(s, d) ==
    DivStep(DivStep(DivStep(DivStep(DivStep(DivStep(DivStep(DivStep(s,
        d), d), d), d), d), d), d), d)

\* the quotient's first 53 digits, rounded on the remainder
RECURSIVE DivLoop(_, _)
DivLoop(s, d) ==
    IF Full53(s.q) THEN RoundEven(s.q, Shl1(s.r), d, s.e)
    ELSE DivLoop(DivStep8(s, d), d)

\* x / y for floats x >= 0 and y > 0
FDiv(x, y) ==
    IF x.m = Zero3 THEN FZero
    ELSE IF Geq3(x.m, y.m)
    THEN DivLoop([q |-> N3(1), r |-> Sub3(x.m, y.m), e |-> x.e - y.e], y.m)
    ELSE DivLoop([q |-> Zero3, r |-> x.m, e |-> x.e - y.e], y.m)

\* the float nearest to n/d for ints n >= 0 and d > 0 (how float() reads a
\* decimal literal)
FromRatio(n, d) ==
    IF n = 0 THEN FZero
    ELSE DivLoop([q |-> N3(n \div d), r |-> N3(n % d), e |-> 0], N3(d))

Int3(i) == i[1] + Limb * i[2]

\* int(x) of a float x >= 0: truncation
Trunc(x) == Int3(ShrN(x.m, 0 - x.e))

\* the float m * 2^e of a mantissa m < 2^53 that is short by `shift` digits
Shifted(m, e, shift) == [m |-> ShlN(m, shift), e |-> e - shift]

Normalize(m, e) ==
    IF m = Zero3 THEN FZero ELSE Shifted(m, e, 53 - BitLen3(m))

\* x - k for a float x >= 0 and the int k = int(x): the difference is the
\* fractional part of x, which is a float, so no rounding takes place
FSubInt(x, k) ==
    IF x.e >= 0 THEN FZero
    ELSE Normalize(Sub3(x.m, ShlN(N3(k), 0 - x.e)), x.e)

\* float(s) accepts s: digits with at most one point and at least one digit
\* (the strings of this model hold no sign, exponent, inf or nan)
FloatPartsOk(parts) ==
    /\ Len(parts) \in {1, 2}
    /\ \A i \in 1..Len(parts) : AllDigits(parts[i])
    /\ \E i \in 1..Len(parts) : Len(parts[i]) > 0

FloatOk(s) == FloatPartsOk(Split(s, "."))

\* float(s) for such a string
FloatParts(whole, frac) ==
    FromRatio(DigitsVal(whole \o frac, 0), 10^Len(frac))

FloatOfParts(parts) ==
    FloatParts(parts[1], IF Len(parts) = 2 THEN parts[2] ELSE "")

Float(s) == FloatOfParts(Split(s, "."))


(***************************************************************************)
(* parse_elapsed                                                           *)
(***************************************************************************)
Timedelta(ms) == [t |-> "timedelta", ms |-> ms]

Raised(err) == [ok |-> FALSE, err |-> err]

Returned(v) == [ok |-> TRUE, v |-> v]

\* int((float(seconds) - seconds_int) / 0.001)
MillisecondsOf(seconds_float, seconds_int) ==
    Trunc(FDiv(FSubInt(seconds_float, seconds_int), FromRatio(1, 1000)))

\* milliseconds_int, with seconds_int = int(float(seconds))
MillisecondsInt(seconds) ==
    MillisecondsOf(Float(seconds), Trunc(Float(seconds)))

\* datetime.timedelta(hours=, minutes=, seconds=, milliseconds=) of ints
TimedeltaOf(hours_int, minutes_int, seconds_int, milliseconds_int) ==
    Timedelta(3600000 * hours_int + 60000 * minutes_int
              + 1000 * seconds_int + milliseconds_int)

\* the conversions of the three fields, in the order of the source: the
\* first float() that rejects its field raises ValueError
ParseFields(hours, minutes, seconds) ==
    IF ~(FloatOk(hours) /\ FloatOk(minutes) /\ FloatOk(seconds))
    THEN Raised("ValueError")
    ELSE Returned(TimedeltaOf(Trunc(Float(hours)), Trunc(Float(minutes)),
                              Trunc(Float(seconds)), MillisecondsInt(seconds)))

\* ParseArr with a slip: a single field is read as the seconds
ParseArr_OneField(elapsed_arr) ==
    IF Len(elapsed_arr) = 1
    THEN ParseFields("0", "0", elapsed_arr[1])
    ELSE IF Len(elapsed_arr) = 2
    THEN ParseFields("0", elapsed_arr[1], elapsed_arr[2])
    ELSE IF Len(elapsed_arr) = 3
    THEN ParseFields(elapsed_arr[1], elapsed_arr[2], elapsed_arr[3])
    ELSE Raised("AssertionError")

\* the branches on len(elapsed_arr)
ParseArr(elapsed_arr) ==
    IF Len(elapsed_arr) = 2
    THEN ParseFields("0", elapsed_arr[1], elapsed_arr[2])
    ELSE IF Len(elapsed_arr) = 3
    THEN ParseFields(elapsed_arr[1], elapsed_arr[2], elapsed_arr[3])
    ELSE Raised("AssertionError")

parse_elapsed(e) == ParseArr(Split(e, ":"))

(***************************************************************************)
(* Python values and dicts.                                                *)
(***************************************************************************)
PyNone == [t |-> "none"]
PyTrue == [t |-> "bool", v |-> TRUE]
PyFalse == [t |-> "bool", v |-> FALSE]
PyInt(n) == [t |-> "int", v |-> n]
PyStr(s) == [t |-> "str", v |-> s]
PyFloat(x) == [t |-> "float", v |-> x]
PyNaN == [t |-> "nan"]
PyDict(d) == [t |-> "dict", v |-> d]

\* a local variable no statement has assigned yet
Unbound == [t |-> "unbound"]

\* the truth value of a flag that is None, True or False
Truthy(x) == x.t = "bool" /\ x.v

\* dict keys: a str key and an int key
S(s) == <<"s", s>>
I(n) == <<"i", n>>

EmptyDict == [k \in {} |-> PyNone]

\* d[k] = v
DictSet(d, k, v) == [x \in DOMAIN d \cup {k} |-> IF x = k THEN v ELSE d[x]]

\* d[path[1]][path[2]]... can be read: no KeyError
RECURSIVE HasPath(_, _)
HasPath(d, path) ==
    \/ Len(path) = 0
    \/ /\ path[1] \in DOMAIN d
       /\ \/ Len(path) = 1
          \/ d[path[1]].t = "dict" /\ HasPath(d[path[1]].v, Tail(path))

RECURSIVE GetPath(_, _)
GetPath(d, path) ==
    IF Len(path) = 1 THEN d[path[1]] ELSE GetPath(d[path[1]].v, Tail(path))

\* d[path[1]]...[path[n]] = v, where all but the last key can be read
RECURSIVE SetPath(_, _, _)
SetPath(d, path, v) ==
    IF Len(path) = 1 THEN DictSet(d, path[1], v)
    ELSE DictSet(d, path[1], PyDict(SetPath(d[path[1]].v, Tail(path), v)))

(***************************************************************************)
(* recursive_timedelta_to_totsec                                           *)
(***************************************************************************)
\* timedelta.total_seconds(): the float nearest to the seconds
total_seconds(td) == PyFloat(FromRatio(td.ms, 1000))

\* recursive_timedelta_to_totsec with a slip: a nested dict is copied, not
\* converted
timedelta_to_totsec_flat(d) ==
    [key \in DOMAIN d |->
        IF d[key].t = "timedelta" THEN total_seconds(d[key]) ELSE d[key]]

RECURSIVE recursive_timedelta_to_totsec(_)
recursive_timedelta_to_totsec(d) ==
    [key \in DOMAIN d |->
        IF d[key].t = "timedelta" THEN total_seconds(d[key])
        ELSE IF d[key].t = "dict"
        THEN PyDict(recursive_timedelta_to_totsec(d[key].v))
        ELSE d[key]]


(***************************************************************************)
(* parse_compress: the scan of one line.  l holds the local variables; a   *)
(* step gives the locals after the line, the exception it raised ("none"   *)
(* when it raised nothing), what it printed to standard error and the      *)
(* branch of the if/elif chain that took the line.                         *)
(***************************************************************************)
Continue(l, b) == [l |-> l, err |-> "none", warn |-> <<>>, branch |-> b]

Raise(l, e, b) == [l |-> l, err |-> e, warn |-> <<>>, branch |-> b]

\* parsed[fname][iteration][method]
MethodPath(l) == <<S(l.fname.v), I(l.iteration.v), S(l.method.v)>>

ElapsedChars == {"e", "l", "a", "p", "s", "d"}
CpuChars == {"%", "C", "P", "U"}

\* fname is bound and parsed[fname] = {}
BeginFname(l, name) ==
    Continue([l EXCEPT !.fname = PyStr(name),
                       !.parsed = DictSet(@, S(name), PyDict(EmptyDict))],
             "begin")

\* line.startswith('Begin processing:')
BeginProcessing(l, line) ==
    BeginFname(l, Splitext(Basename(Split(line, ":")[2]))[1])

\* line.startswith('Intial .fastq size:')
IntialSize(l, line) ==
    Continue([l EXCEPT !.catch_initial_size = PyTrue, !.skip_lines = PyInt(1)],
             "intial")

\* InitialSizeAssert with a slip: the name on the size line is not compared
InitialSizeAssert_AnyName(l2, line_arr) ==
    IF Len(line_arr) < 2 THEN Raise(l2, "IndexError", "initial_size")
    ELSE Continue([l2 EXCEPT !.catch_initial_size = PyFalse,
                             !.skip_lines = PyNone], "initial_size")

\* the assertion on the name, after parsed[fname]['size_bytes'] is stored
InitialSizeAssert(l2, line_arr) ==
    IF Len(line_arr) < 2 THEN Raise(l2, "IndexError", "initial_size")
    ELSE IF Basename(line_arr[2]) # l2.fname.v
    THEN Raise(l2, "AssertionError", "initial_size")
    ELSE Continue([l2 EXCEPT !.catch_initial_size = PyFalse,
                             !.skip_lines = PyNone], "initial_size")

\* skip_lines == 0: the size line
InitialSizeFields(l, line_arr) ==
    IF Len(line_arr) < 1 THEN Raise(l, "IndexError", "initial_size")
    ELSE IF ~IntOk(line_arr[1]) THEN Raise(l, "ValueError", "initial_size")
    ELSE IF l.fname.t = "unbound"
    THEN Raise(l, "UnboundLocalError", "initial_size")
    ELSE InitialSizeAssert(
             [l EXCEPT !.parsed = SetPath(@, <<S(l.fname.v), S("size_bytes")>>,
                                          PyInt(IntVal(line_arr[1])))],
             line_arr)

\* catch_initial_size and skip_lines >= 0
CatchInitialSize(l, line) ==
    IF l.skip_lines.v > 0
    THEN Continue([l EXCEPT !.skip_lines = PyInt(@.v - 1)], "initial_skip")
    ELSE InitialSizeFields(l, SplitWS(line))

\* parsed[fname][iteration] = {}, after iteration is bound
IterationSet(l2) ==
    IF l2.fname.t = "unbound" THEN Raise(l2, "UnboundLocalError", "iteration")
    ELSE Continue([l2 EXCEPT !.parsed = SetPath(@,
                       <<S(l2.fname.v), I(l2.iteration.v)>>, PyDict(EmptyDict))],
                  "iteration")

IterationField(l, field) ==
    IF ~IntOk(field) THEN Raise(l, "ValueError", "iteration")
    ELSE IterationSet([l EXCEPT !.iteration = PyInt(IntVal(field))])

\* line.startswith('Iteration:')
Iteration(l, line) == IterationField(l, Split(line, ":")[2])

\* parsed[fname][iteration][method] = {}, after method is bound
TestingMethod(l2) ==
    IF l2.fname.t = "unbound" \/ l2.iteration.t = "unbound"
    THEN Raise(l2, "UnboundLocalError", "testing")
    ELSE IF ~HasPath(l2.parsed, <<S(l2.fname.v), I(l2.iteration.v)>>)
    THEN Raise(l2, "KeyError", "testing")
    ELSE Continue([l2 EXCEPT !.parsed = SetPath(@, MethodPath(l2), PyDict(EmptyDict)),
                             !.catch_comp_cmd = PyTrue], "testing")

TestingFields(l, line_arr) ==
    IF Len(line_arr) < 2 THEN Raise(l, "IndexError", "testing")
    ELSE TestingMethod([l EXCEPT !.method = PyStr(line_arr[2])])

\* line.startswith('Testing')
Testing(l, line) == TestingFields(l, SplitWS(RStrip(line, {":"})))

\* the '+ sudo time' line of a process: its command opens the process's dict
CatchCmd(l, line, process) ==
    [l EXCEPT !.parsed = SetPath(@, MethodPath(l) \o <<S(process)>>,
         PyDict(DictSet(EmptyDict, S("command"), PyStr(line))))]

\* pct_cpu and parsed[...][process]['CPU_percent']
CatchCpuField(l2, pct_cpu, path, b) ==
    IF pct_cpu # "?" /\ ~FloatOk(pct_cpu) THEN Raise(l2, "ValueError", b)
    ELSE Continue([l2 EXCEPT !.parsed = SetPath(@, path \o <<S("CPU_percent")>>,
                       IF pct_cpu = "?" THEN PyNaN ELSE PyFloat(Float(pct_cpu)))], b)

CatchCpu(l2, line_arr, path, b) ==
    IF Len(line_arr) < 4 THEN Raise(l2, "IndexError", b)
    ELSE CatchCpuField(l2, Strip(line_arr[4], CpuChars), path, b)

\* parsed[...][process]['elapsed_time'] = elapsed
CatchElapsed(l, line_arr, elapsed_td, path, b) ==
    IF ~elapsed_td.ok THEN Raise(l, elapsed_td.err, b)
    ELSE IF ~HasPath(l.parsed, path) THEN Raise(l, "KeyError", b)
    ELSE CatchCpu([l EXCEPT !.parsed = SetPath(@, path \o <<S("elapsed_time")>>,
                                               elapsed_td.v)],
                  line_arr, path, b)

CatchTimeFields(l, line_arr, path, b) ==
    IF Len(line_arr) < 3 THEN Raise(l, "IndexError", b)
    ELSE CatchElapsed(l, line_arr,
             parse_elapsed(Strip(line_arr[3], ElapsedChars)), path, b)

\* the elapsed/CPU line of a process: elapsed_time, then CPU_percent
CatchTime(l, line, process, b) ==
    CatchTimeFields(l, SplitWS(line), MethodPath(l) \o <<S(process)>>, b)

CatchSizeFields(l, line_arr, path, b) ==
    IF Len(line_arr) < 1 THEN Raise(l, "IndexError", b)
    ELSE IF ~IntOk(line_arr[1]) THEN Raise(l, "ValueError", b)
    ELSE IF ~HasPath(l.parsed, path) THEN Raise(l, "KeyError", b)
    ELSE Continue([l EXCEPT !.parsed = SetPath(@, path \o <<S("size_bytes")>>,
                       PyInt(IntVal(line_arr[1])))], b)

\* the size line of a process, after its '+ du --bytes' line
CatchSize(l, line, process, b) ==
    CatchSizeFields(l, SplitWS(line), MethodPath(l) \o <<S(process)>>, b)

\* catch_comp_cmd and line.startswith('+ sudo time')
CatchCompCmd(l, line) ==
    IF ~HasPath(l.parsed, MethodPath(l)) THEN Raise(l, "KeyError", "comp_cmd")
    ELSE Continue([CatchCmd(l, line, "compress")
                      EXCEPT !.catch_comp_cmd = PyFalse,
                             !.catch_comp_time = PyTrue], "comp_cmd")

\* CompTimeDone with a slip: the decompress command is awaited next, not the
\* compress size
CompTimeDone_SkipSize(r) ==
    IF r.err # "none" THEN r
    ELSE [r EXCEPT !.l.catch_comp_time = PyFalse, !.l.catch_decomp_cmd = PyTrue]

\* the flags after the compress time line is stored
CompTimeDone(r) ==
    IF r.err # "none" THEN r
    ELSE [r EXCEPT !.l.catch_comp_time = PyFalse, !.l.catch_comp_size = PyTrue]

\* catch_comp_time and ('elapsed' in line) and ('CPU' in line)
CatchCompTime(l, line) ==
    CompTimeDone(CatchTime(l, line, "compress", "comp_time"))

\* the flags after the compress size line is stored
CompSizeDone(r) ==
    IF r.err # "none" THEN r
    ELSE [r EXCEPT !.l.catch_comp_size = PyFalse,
                   !.l.skip_lines = PyNone,
                   !.l.catch_decomp_cmd = PyTrue]

\* catch_comp_size
CatchCompSize(l, line) ==
    IF StartsWith(line, "+ du --bytes")
    THEN Continue([l EXCEPT !.skip_lines = PyInt(0)], "comp_du")
    ELSE IF l.skip_lines.t = "int" /\ l.skip_lines.v = 0
    THEN CompSizeDone(CatchSize(l, line, "compress", "comp_size"))
    ELSE Continue(l, "comp_wait")

\* CatchDecompCmd with a slip of copying the compress branch: the command is
\* stored under 'compress'
CatchDecompCmd_Compress(l, line) ==
    IF ~HasPath(l.parsed, MethodPath(l)) THEN Raise(l, "KeyError", "decomp_cmd")
    ELSE Continue([CatchCmd(l, line, "compress")
                      EXCEPT !.catch_decomp_cmd = PyFalse,
                             !.catch_decomp_time = PyTrue], "decomp_cmd")

\* catch_decomp_cmd and line.startswith('+ sudo time')
CatchDecompCmd(l, line) ==
    IF ~HasPath(l.parsed, MethodPath(l)) THEN Raise(l, "KeyError", "decomp_cmd")
    ELSE Continue([CatchCmd(l, line, "decompress")
                      EXCEPT !.catch_decomp_cmd = PyFalse,
                             !.catch_decomp_time = PyTrue], "decomp_cmd")

\* the flags after the decompress time line is stored
DecompTimeDone(r) ==
    IF r.err # "none" THEN r
    ELSE [r EXCEPT !.l.catch_decomp_time = PyFalse,
                   !.l.catch_decomp_size = PyTrue]

\* catch_decomp_time and ('elapsed' in line) and ('CPU' in line)
CatchDecompTime(l, line) ==
    DecompTimeDone(CatchTime(l, line, "decompress", "decomp_time"))

\* the warning printed to sys.stderr
Warning(l, init_size, finl_size) ==
    [fname |-> l.fname.v, method |-> l.method.v,
     init_size |-> init_size, finl_size |-> finl_size]

\* DecompSizeWarn with a slip: a mismatch raises instead of warning
DecompSizeWarn_Abort(r, init_size, finl_size) ==
    IF init_size # finl_size THEN Raise(r.l, "AssertionError", "decomp_size")
    ELSE [r EXCEPT !.l.catch_decomp_size = PyFalse, !.l.skip_lines = PyNone]

\* the comparison of the two sizes, then the flags
DecompSizeWarn(r, init_size, finl_size) ==
    [r EXCEPT !.l.catch_decomp_size = PyFalse,
              !.l.skip_lines = PyNone,
              !.warn = IF init_size # finl_size
                       THEN <<Warning(r.l, init_size.v, finl_size.v)>>
                       ELSE <<>>]

\* after the decompress size line is stored: parsed[fname]['size_bytes'] is
\* read first
DecompSizeDone(r) ==
    IF r.err # "none" THEN r
    ELSE IF ~HasPath(r.l.parsed, <<S(r.l.fname.v), S("size_bytes")>>)
    THEN Raise(r.l, "KeyError", "decomp_size")
    ELSE DecompSizeWarn(r,
             GetPath(r.l.parsed, <<S(r.l.fname.v), S("size_bytes")>>),
             GetPath(r.l.parsed,
                     MethodPath(r.l) \o <<S("decompress"), S("size_bytes")>>))

\* catch_decomp_size
CatchDecompSize(l, line) ==
    IF StartsWith(line, "+ du --bytes")
    THEN Continue([l EXCEPT !.skip_lines = PyInt(0)], "decomp_du")
    ELSE IF l.skip_lines.t = "int" /\ l.skip_lines.v = 0
    THEN DecompSizeDone(CatchSize(l, line, "decompress", "decomp_size"))
    ELSE Continue(l, "decomp_wait")

\* the if/elif chain on the stripped line
ScanStripped(l, line) ==
    IF StartsWith(line, "Begin processing:") THEN BeginProcessing(l, line)
    ELSE IF StartsWith(line, "Intial .fastq size:") THEN IntialSize(l, line)
    ELSE IF /\ Truthy(l.catch_initial_size)
            /\ l.skip_lines.t = "int" /\ l.skip_lines.v >= 0
    THEN CatchInitialSize(l, line)
    ELSE IF StartsWith(line, "Iteration:") THEN Iteration(l, line)
    ELSE IF StartsWith(line, "Testing") THEN Testing(l, line)
    ELSE IF Truthy(l.catch_comp_cmd) /\ StartsWith(line, "+ sudo time")
    THEN CatchCompCmd(l, line)
    ELSE IF /\ Truthy(l.catch_comp_time)
            /\ Contains(line, "elapsed") /\ Contains(line, "CPU")
    THEN CatchCompTime(l, line)
    ELSE IF Truthy(l.catch_comp_size) THEN CatchCompSize(l, line)
    ELSE IF Truthy(l.catch_decomp_cmd) /\ StartsWith(line, "+ sudo time")
    THEN CatchDecompCmd(l, line)
    ELSE IF /\ Truthy(l.catch_decomp_time)
            /\ Contains(line, "elapsed") /\ Contains(line, "CPU")
    THEN CatchDecompTime(l, line)
    ELSE IF Truthy(l.catch_decomp_size) THEN CatchDecompSize(l, line)
    ELSE Continue(l, "none")

\* the body of `for line in fobj`: line = line.rstrip(), then the chain
ScanLine(l, raw) == ScanStripped(l, RStrip(raw, Whitespace))

\* the locals as parse_compress sets them before it opens the file
InitLocals ==
    [parsed |-> EmptyDict, fname |-> Unbound, iteration |-> Unbound,
     method |-> Unbound, skip_lines |-> PyNone,
     catch_initial_size |-> PyNone,
     catch_comp_cmd |-> PyNone, catch_comp_time |-> PyNone,
     catch_comp_size |-> PyNone,
     catch_decomp_cmd |-> PyNone, catch_decomp_time |-> PyNone,
     catch_decomp_size |-> PyNone]

(***************************************************************************)
(* parse_compress: the call.                                               *)
(***************************************************************************)
NotWritten == [written |-> FALSE, data |-> EmptyDict]

\* CheckInput with a slip: '.json' is looked for anywhere in fout
CheckInput_Anywhere(isfile, fo) ==
    IF ~isfile THEN "IOError"
    ELSE IF fo.t # "none" /\ ~Contains(fo.v, ".json") THEN "IOError"
    ELSE "none"

\* the input checks: the exception raised before the file is opened
CheckInput(isfile, fo) ==
    IF ~isfile THEN "IOError"
    ELSE IF fo.t # "none" /\ Splitext(fo.v)[2] # ".json" THEN "IOError"
    ELSE "none"

\* PcAfterLine with a slip: the exception is swallowed and the loop goes on
PcAfterLine_Swallow(err) == "scan"

\* an exception raised in the loop body leaves the function
PcAfterLine(err) == IF err = "none" THEN "scan" ELSE "raised"

\* the file at fout after the loop: json.dump of the converted dict
WriteOut(fo, parsed_dict, file) ==
    IF fo.t # "none"
    THEN [written |-> TRUE, data |-> recursive_timedelta_to_totsec(parsed_dict)]
    ELSE file

\* ReturnValue with a slip: parsed_converted is returned
ReturnValue_Converted(l) == PyDict(recursive_timedelta_to_totsec(l.parsed))

\* return parsed
ReturnValue(l) == PyDict(l.parsed)

\* a capture flag other than catch_comp_cmd is set
FlagPending(l) ==
    \/ Truthy(l.catch_comp_time) \/ Truthy(l.catch_comp_size)
    \/ Truthy(l.catch_decomp_cmd) \/ Truthy(l.catch_decomp_time)
    \/ Truthy(l.catch_decomp_size)

varsElapsed == <<elapsed, elapsed_dt>>
varsConv == <<dobj, dobj_converted, dobj_again>>
varsCompress ==
    <<pc, fin_isfile, fout, locals, nread, error, ret, outfile, stderr, branch,
      stale>>
varsGen == <<gen, expected>>
vars == <<varsElapsed, varsConv, varsCompress, varsGen>>

NotCalled == [ok |-> FALSE, err |-> "not called"]

GenStart == [pos |-> "top", file |-> 0, iter |-> 0, meth |-> 0, variant |-> 1]

\* no call of parse_elapsed, of recursive_timedelta_to_totsec, of
\* parse_compress; no transcript writer
IdleElapsed == elapsed = "" /\ elapsed_dt = NotCalled
IdleConv == dobj = EmptyDict /\ dobj_converted = PyNone /\ dobj_again = PyNone
IdleCompress ==
    /\ pc = "idle" /\ fin_isfile = FALSE /\ fout = PyNone
    /\ locals = InitLocals /\ nread = 0 /\ error = "none" /\ ret = PyNone
    /\ outfile = NotWritten /\ stderr = <<>> /\ branch = "none"
    /\ stale = FALSE
IdleGen == gen = GenStart /\ expected = EmptyDict

(***************************************************************************)
(* The calls of parse_compress: any transcript of at most MaxLines lines   *)
(* of Lines.                                                               *)
(***************************************************************************)
MaxLines == 14

Lines ==
    {"Begin processing: /data/a.fq.gz",
     "Intial .fastq size:",
     "+ du --bytes a.fq",
     "100\ta.fq",
     "90\tb.fq",
     "Iteration: 1",
     "Testing gzip:",
     "Testing bzip2:",
     "+ sudo time gzip a.fq",
     "0.01user 0.00system 0:02.07elapsed 98%CPU",
     "0.01user 0.00system 2.07elapsed ?%CPU",
     "0inputs+0outputs"}

FoutInputs ==
    {PyNone, PyStr("out.json"), PyStr("out.txt"), PyStr("d.json/out"),
     PyStr(".json")}

InitCompress ==
    /\ pc = "call"
    /\ fin_isfile \in BOOLEAN
    /\ fout \in FoutInputs
    /\ locals = InitLocals
    /\ nread = 0
    /\ error = "none"
    /\ ret = PyNone
    /\ outfile = NotWritten
    /\ stderr = <<>>
    /\ branch = "none"
    /\ stale = FALSE

Init == IdleElapsed /\ IdleConv /\ InitCompress /\ IdleGen

\* parse_compress is entered: the checks of fin and fout
Enter ==
    /\ pc = "call"
    /\ error' = CheckInput(fin_isfile, fout)
    /\ pc' = IF error' = "none" THEN "scan" ELSE "raised"
    /\ UNCHANGED <<fin_isfile, fout, locals, nread, ret, outfile, stderr, branch,
                   stale>>
    /\ UNCHANGED <<varsElapsed, varsConv, varsGen>>

\* the loop reads the next line of the file
ReadLine(line) ==
    /\ pc = "scan"
    /\ \E r \in {ScanLine(locals, line)} :
           /\ locals' = r.l
           /\ branch' = r.branch
           /\ stderr' = stderr \o r.warn
           /\ pc' = PcAfterLine(r.err)
           /\ error' = r.err
           /\ stale' = (stale \/ (r.branch = "testing" /\ FlagPending(locals)))
    /\ nread' = nread + 1
    /\ UNCHANGED <<fin_isfile, fout, ret, outfile>>
    /\ UNCHANGED <<varsElapsed, varsConv>>

\* the file ends: the JSON is written when fout is given, parsed is returned
EndOfFile ==
    /\ pc = "scan"
    /\ outfile' = WriteOut(fout, locals.parsed, outfile)
    /\ ret' = ReturnValue(locals)
    /\ pc' = "done"
    /\ UNCHANGED <<fin_isfile, fout, locals, nread, error, stderr, branch, stale>>
    /\ UNCHANGED <<varsElapsed, varsConv, varsGen>>

Next ==
    \/ Enter
    \/ \E line \in Lines : nread < MaxLines /\ ReadLine(line) /\ UNCHANGED varsGen
    \/ EndOfFile

Spec == Init /\ [][Next]_vars

(***************************************************************************)
(* The calls of parse_compress on a transcript in the benchmark script's   *)
(* format: per file 'Begin processing:', 'Intial .fastq size:', a command  *)
(* line and a size line; then per 'Iteration:' and per 'Testing' block the  *)
(* four lines of compress and the four lines of decompress.  An iteration  *)
(* tests every method; the transcript may end after any block.             *)
(***************************************************************************)
MaxFiles == 2
MaxIters == 2

Files == <<"/data/a.fq.gz", "/tmp/run/b.fq.gz", "/c.fq.gz">>
FileNames == <<"a.fq", "b.fq", "c.fq">>
Methods == <<"gzip", "bzip2">>

\* what the script measured, by the file's variant v, iteration and process
InitialSizeOf(f) == 100 * f
SizeOf(g, process) ==
    IF process = "compress" THEN 10 * g.meth + g.iter
    ELSE IF g.variant = 1 THEN InitialSizeOf(g.file) ELSE 90
ElapsedOf(g, process) ==
    IF process = "compress"
    THEN (IF g.variant = 1 THEN "0:02.07" ELSE "1:00:03.50")
    ELSE (IF g.iter = 1 THEN "0:00.57" ELSE "0:01.10")
CpuOf(g, process) ==
    IF process = "compress" THEN "98" ELSE IF g.variant = 1 THEN "?" ELSE "7"

CommandLine(g, process) ==
    "+ sudo time " \o Methods[g.meth]
        \o (IF process = "compress" THEN " " ELSE " -d ") \o FileNames[g.file]
TimeLine(g, process) ==
    "0.01user 0.00system " \o ElapsedOf(g, process) \o "elapsed "
        \o CpuOf(g, process) \o "%CPU (0avgtext+0avgdata 2832maxresident)k"
DuLine(g) == "+ du --bytes " \o FileNames[g.file]
SizeLine(n, g) == ToString(n) \o "\t" \o FileNames[g.file]

\* the path of the writer's current block in the expected structure
GenPath(g) == <<S(FileNames[g.file]), I(g.iter), S(Methods[g.meth])>>

\* the entry a process's four lines describe
EntryOf(g, process) ==
    LET e0 == DictSet(EmptyDict, S("command"), PyStr(CommandLine(g, process)))
        e1 == DictSet(e0, S("elapsed_time"), parse_elapsed(ElapsedOf(g, process)).v)
        e2 == DictSet(e1, S("CPU_percent"),
                      IF CpuOf(g, process) = "?" THEN PyNaN
                      ELSE PyFloat(FromRatio(IntVal(CpuOf(g, process)), 1)))
    IN  PyDict(DictSet(e2, S("size_bytes"), PyInt(SizeOf(g, process))))

\* every method of the current iteration was tested
BlocksDone(g) == g.iter = 0 \/ g.meth = Len(Methods)

\* the lines the writer may write next: the line, the writer after it and
\* the expected structure after it
GenSteps(g, x) ==
    IF g.pos = "top" THEN
        {[line |-> "Begin processing: " \o Files[g.file + 1],
          gen |-> [pos |-> "intial", file |-> g.file + 1, iter |-> 0,
                   meth |-> 0, variant |-> v],
          expected |-> DictSet(x, S(FileNames[g.file + 1]), PyDict(EmptyDict))]
            : v \in IF g.file < MaxFiles /\ BlocksDone(g) THEN {1, 2} ELSE {}}
        \cup
        {[line |-> "Iteration: " \o ToString(g.iter + 1),
          gen |-> [g EXCEPT !.iter = g.iter + 1, !.meth = 0],
          expected |-> SetPath(x, <<S(FileNames[g.file]), I(g.iter + 1)>>,
                               PyDict(EmptyDict))]
            : k \in IF g.file > 0 /\ g.iter < MaxIters /\ BlocksDone(g)
                    THEN {1} ELSE {}}
        \cup
        {[line |-> "Testing " \o Methods[g.meth + 1] \o ":",
          gen |-> [g EXCEPT !.meth = g.meth + 1, !.pos = "compress_cmd"],
          expected |-> x]
            : k \in IF g.iter > 0 /\ g.meth < Len(Methods) THEN {1} ELSE {}}
    ELSE IF g.pos = "intial" THEN
        {[line |-> "Intial .fastq size:",
          gen |-> [g EXCEPT !.pos = "initial_cmd"], expected |-> x]}
    ELSE IF g.pos = "initial_cmd" THEN
        {[line |-> DuLine(g), gen |-> [g EXCEPT !.pos = "initial_size"],
          expected |-> x]}
    ELSE IF g.pos = "initial_size" THEN
        {[line |-> SizeLine(InitialSizeOf(g.file), g),
          gen |-> [g EXCEPT !.pos = "top"],
          expected |-> SetPath(x, <<S(FileNames[g.file]), S("size_bytes")>>,
                               PyInt(InitialSizeOf(g.file)))]}
    ELSE IF g.pos = "compress_cmd" THEN
        {[line |-> CommandLine(g, "compress"),
          gen |-> [g EXCEPT !.pos = "compress_time"], expected |-> x]}
    ELSE IF g.pos = "compress_time" THEN
        {[line |-> TimeLine(g, "compress"),
          gen |-> [g EXCEPT !.pos = "compress_du"], expected |-> x]}
    ELSE IF g.pos = "compress_du" THEN
        {[line |-> DuLine(g), gen |-> [g EXCEPT !.pos = "compress_size"],
          expected |-> x]}
    ELSE IF g.pos = "compress_size" THEN
        {[line |-> SizeLine(SizeOf(g, "compress"), g),
          gen |-> [g EXCEPT !.pos = "decompress_cmd"], expected |-> x]}
    ELSE IF g.pos = "decompress_cmd" THEN
        {[line |-> CommandLine(g, "decompress"),
          gen |-> [g EXCEPT !.pos = "decompress_time"], expected |-> x]}
    ELSE IF g.pos = "decompress_time" THEN
        {[line |-> TimeLine(g, "decompress"),
          gen |-> [g EXCEPT !.pos = "decompress_du"], expected |-> x]}
    ELSE IF g.pos = "decompress_du" THEN
        {[line |-> DuLine(g), gen |-> [g EXCEPT !.pos = "decompress_size"],
          expected |-> x]}
    ELSE
        {[line |-> SizeLine(SizeOf(g, "decompress"), g),
          gen |-> [g EXCEPT !.pos = "top"],
          expected |-> SetPath(x, GenPath(g),
              PyDict(DictSet(DictSet(EmptyDict, S("compress"), EntryOf(g, "compress")),
                             S("decompress"), EntryOf(g, "decompress"))))]}

InitFormat == IdleElapsed /\ IdleConv /\ InitCompress /\ IdleGen

\* the loop reads the line the script wrote next
ReadWritten ==
    \E st \in GenSteps(gen, expected) :
        /\ ReadLine(st.line)
        /\ gen' = st.gen
        /\ expected' = st.expected

NextFormat ==
    \/ Enter
    \/ ReadWritten
    \/ EndOfFile

SpecFormat == InitFormat /\ [][NextFormat]_vars

(***************************************************************************)
(* The calls of recursive_timedelta_to_totsec: one call on a nested dict   *)
(* of at most MaxDepth levels, and one on its result.                      *)
(***************************************************************************)
MaxDepth == 2

Keys == {S("a"), I(1)}
Scalars == {Timedelta(2069), PyInt(100)}

RECURSIVE Dicts(_)
Dicts(n) ==
    LET vals == IF n = 1 THEN Scalars
                ELSE Scalars \cup {PyDict(d) : d \in Dicts(n - 1)}
    IN  UNION {[ks -> vals] : ks \in SUBSET Keys}

InitConv ==
    /\ dobj \in Dicts(MaxDepth)
    /\ dobj_converted = PyNone
    /\ dobj_again = PyNone
    /\ IdleElapsed /\ IdleCompress /\ IdleGen

CallConvert ==
    /\ dobj_converted = PyNone
    /\ dobj_converted' = PyDict(recursive_timedelta_to_totsec(dobj))
    /\ UNCHANGED <<dobj, dobj_again, varsElapsed, varsCompress, varsGen>>

CallConvertAgain ==
    /\ dobj_converted # PyNone
    /\ dobj_again = PyNone
    /\ dobj_again' = PyDict(recursive_timedelta_to_totsec(dobj_converted.v))
    /\ UNCHANGED <<dobj, dobj_converted, varsElapsed, varsCompress, varsGen>>

NextConv == CallConvert \/ CallConvertAgain

SpecConv == InitConv /\ [][NextConv]_vars

(***************************************************************************)
(* The calls of parse_elapsed: one call per elapsed string.                *)
(***************************************************************************)
MaxFields == 4
MaxSecDigits == 2
MaxFracDigits == 2

\* the strings of at most n characters of chars
RECURSIVE Strs(_, _)
Strs(chars, n) ==
    IF n = 0 THEN {""}
    ELSE {""} \cup {c \o s : c \in chars, s \in Strs(chars, n - 1)}

HeadFields == {"", "0", "1"}

SecFields ==
    {i \o f : i \in Strs({"0", "2"}, MaxSecDigits),
              f \in {""} \cup {"." \o d : d \in Strs({"0", "7", "9"}, MaxFracDigits)}}

\* n fields, each followed by a colon
RECURSIVE Heads(_)
Heads(n) ==
    IF n = 0 THEN {""}
    ELSE {h \o f \o ":" : h \in Heads(n - 1), f \in HeadFields}

ElapsedInputs ==
    {h \o s : h \in UNION {Heads(n) : n \in 0..(MaxFields - 1)}, s \in SecFields}

InitElapsed ==
    /\ elapsed \in ElapsedInputs
    /\ elapsed_dt = NotCalled
    /\ IdleConv /\ IdleCompress /\ IdleGen

CallParseElapsed ==
    /\ elapsed_dt = NotCalled
    /\ elapsed_dt' = parse_elapsed(elapsed)
    /\ UNCHANGED <<elapsed, varsConv, varsCompress, varsGen>>

SpecElapsed == InitElapsed /\ [][CallParseElapsed]_vars

(***************************************************************************)
(* Properties of parse_elapsed, under SpecElapsed.                         *)
(***************************************************************************)
\* the number of times the character c occurs in s
RECURSIVE CountChar(_, _)
CountChar(s, c) ==
    IF Len(s) = 0 THEN 0
    ELSE (IF Char(s, 1) = c THEN 1 ELSE 0) + CountChar(SubSeq(s, 2, Len(s)), c)

\* a field that writes a whole number
WholeField(f) == Len(f) > 0 /\ \A i \in 1..Len(f) : Char(f, i) \in DigitChars

\* a field of the form SS[.SSS]
SecondsField(f) ==
    /\ CountChar(f, ".") <= 1
    /\ \A i \in 1..Len(f) : Char(f, i) \in DigitChars \cup {"."}
    /\ IF CountChar(f, ".") = 0 THEN Len(f) > 0
       ELSE Find(f, ".", 1) \in 2..(Len(f) - 1) /\ Len(f) - Find(f, ".", 1) <= 3

\* an elapsed string of the form [HH:]MM:SS[.SSS]
ElapsedForm(e) ==
    /\ Len(Split(e, ":")) \in {2, 3}
    /\ \A i \in 1..(Len(Split(e, ":")) - 1) : WholeField(Split(e, ":")[i])
    /\ SecondsField(Split(e, ":")[Len(Split(e, ":"))])

\* the whole milliseconds SS[.SSS] writes: the digits after the point count
\* tenths, hundredths and thousandths
SecondsMs(f) ==
    IF CountChar(f, ".") = 0 THEN 1000 * DigitsVal(f, 0)
    ELSE 1000 * DigitsVal(SubSeq(f, 1, Find(f, ".", 1) - 1), 0)
         + DigitsVal(SubSeq(f, Find(f, ".", 1) + 1, Len(f)), 0)
           * 10^(3 - (Len(f) - Find(f, ".", 1)))

\* 3600*HH + 60*MM + SS.SSS in whole milliseconds
ElapsedMs(arr) ==
    (IF Len(arr) = 3 THEN 3600000 * DigitsVal(arr[1], 0) ELSE 0)
    + 60000 * DigitsVal(arr[Len(arr) - 1], 0)
    + SecondsMs(arr[Len(arr)])

\* C1: parse_elapsed maps every elapsed string of the form [HH:]MM:SS[.SSS]
\* to the duration of 3600*HH + 60*MM + SS.SSS seconds, to the whole
\* millisecond; so MM:SS[.SSS] and 0:MM:SS[.SSS] give the same duration, and a
\* fraction gives the same duration as its milliseconds.
C1_TotalSeconds ==
    (elapsed_dt # NotCalled /\ ElapsedForm(elapsed))
        => elapsed_dt = Returned(Timedelta(ElapsedMs(Split(elapsed, ":"))))

\* the fields of the elapsed string are numeric
NumericFields(e) ==
    \A i \in 1..Len(Split(e, ":")) :
        LET f == Split(e, ":")[i]
        IN  /\ CountChar(f, ".") <= 1
            /\ \A j \in 1..Len(f) : Char(f, j) \in DigitChars \cup {"."}
            /\ \E j \in 1..Len(f) : Char(f, j) \in DigitChars

\* C2: parse_elapsed raises, and returns no duration, for every elapsed string
\* that does not split on ':' into exactly 2 or exactly 3 fields; for every
\* string with 2 or 3 numeric fields it does not raise.
C2_FieldCount ==
    elapsed_dt # NotCalled =>
        /\ CountChar(elapsed, ":") + 1 \notin {2, 3}
               => elapsed_dt = Raised("AssertionError")
        /\ (CountChar(elapsed, ":") + 1 \in {2, 3} /\ NumericFields(elapsed))
               => elapsed_dt.ok /\ elapsed_dt.v.t = "timedelta"

\* parse_elapsed raised on a string of four fields
C2_Witness ==
    /\ elapsed_dt = Raised("AssertionError")
    /\ CountChar(elapsed, ":") + 1 = 4
    /\ NumericFields(elapsed)

(***************************************************************************)
(* Properties of recursive_timedelta_to_totsec, under SpecConv.            *)
(***************************************************************************)
\* c is d with the same keys at every level, every duration replaced by its
\* total seconds and every other scalar unchanged
RECURSIVE SameButSeconds(_, _)
SameButSeconds(d, c) ==
    /\ DOMAIN c = DOMAIN d
    /\ \A key \in DOMAIN d :
           IF d[key].t = "timedelta"
           THEN c[key] = PyFloat(FromRatio(d[key].ms, 1000))
           ELSE IF d[key].t = "dict"
           THEN c[key].t = "dict" /\ SameButSeconds(d[key].v, c[key].v)
           ELSE c[key] = d[key]

\* C5: recursive_timedelta_to_totsec returns a mapping with exactly the same
\* keys at every level, in which every duration is replaced by its total
\* seconds and every other scalar is unchanged; a second application to its
\* own result changes nothing.
C5_Converted ==
    /\ dobj_converted # PyNone
           => dobj_converted.t = "dict" /\ SameButSeconds(dobj, dobj_converted.v)
    /\ dobj_again # PyNone => dobj_again = dobj_converted

\* both calls were made on a dict that holds a duration and another scalar
\* inside a nested dict
C5_Witness ==
    /\ dobj_again # PyNone
    /\ \E key \in DOMAIN dobj :
           /\ dobj[key].t = "dict"
           /\ \E k1, k2 \in DOMAIN dobj[key].v :
                  dobj[key].v[k1].t = "timedelta" /\ dobj[key].v[k2].t = "int"

(***************************************************************************)
(* Properties of parse_compress on any transcript, under Spec.             *)
(***************************************************************************)
\* the path ends in a base name of the form <name>.json, where <name> holds
\* a character that is not a dot
JsonExtension(p) ==
    /\ Len(Basename(p)) > 5
    /\ SubSeq(Basename(p), Len(Basename(p)) - 4, Len(Basename(p))) = ".json"
    /\ \E i \in 1..(Len(Basename(p)) - 5) : Char(Basename(p), i) # "."

\* C3: parse_compress raises when the input path is not an existing file, and
\* when an output path is given whose extension is not '.json'; the error
\* comes before any line is read, nothing is parsed and no output file is
\* written.
C3_InputChecks ==
    (pc # "call" /\ (~fin_isfile \/ (fout.t = "str" /\ ~JsonExtension(fout.v))))
        => /\ pc = "raised" /\ error = "IOError"
           /\ nread = 0 /\ locals = InitLocals /\ stderr = <<>>
           /\ ret = PyNone /\ outfile = NotWritten

\* the call raised on an existing input and an fout whose directory, not
\* whose base name, ends in '.json'
C3_Witness ==
    pc = "raised" /\ fin_isfile /\ fout = PyStr("d.json/out") /\ nread = 0

\* parsed[fname]['size_bytes'] and
\* parsed[fname][iteration][method]['decompress']['size_bytes']
InitialSizePath(l) == <<S(l.fname.v), S("size_bytes")>>
DecompSizePath(l) == MethodPath(l) \o <<S("decompress"), S("size_bytes")>>

\* a step that records a decompress size for a file whose initial size is
\* known
DecompSizeRecorded ==
    /\ pc = "scan" /\ nread' = nread + 1
    /\ branch' = "decomp_size"
    /\ HasPath(locals.parsed, InitialSizePath(locals))
    /\ ~HasPath(locals.parsed, DecompSizePath(locals))
    /\ HasPath(locals'.parsed, DecompSizePath(locals))

\* C4: when the size recorded after decompression differs from the file's
\* initial size, a warning goes to standard error and the scan does not
\* abort: the size stays recorded, the decompress-size capture is closed and
\* the scan continues; when the sizes are equal no warning is printed.
C4_SizeMismatchWarns ==
    [][DecompSizeRecorded =>
          /\ error' = "none" /\ pc' = "scan"
          /\ locals'.catch_decomp_size = PyFalse
          /\ locals'.skip_lines = PyNone
          /\ locals'.parsed =
                 SetPath(locals.parsed, DecompSizePath(locals),
                         GetPath(locals'.parsed, DecompSizePath(locals)))
          /\ stderr' =
                 IF GetPath(locals.parsed, InitialSizePath(locals))
                        # GetPath(locals'.parsed, DecompSizePath(locals))
                 THEN Append(stderr,
                          [fname |-> locals.fname.v, method |-> locals.method.v,
                           init_size |->
                               GetPath(locals.parsed, InitialSizePath(locals)).v,
                           finl_size |->
                               GetPath(locals'.parsed, DecompSizePath(locals)).v])
                 ELSE stderr]_vars

\* a decompress size of 90 bytes was recorded for a file of 100 bytes: one
\* warning was printed and the scan goes on
C4_Witness ==
    /\ pc = "scan" /\ branch = "decomp_size" /\ error = "none"
    /\ Len(stderr) = 1 /\ stderr[1].init_size = 100 /\ stderr[1].finl_size = 90
    /\ GetPath(locals.parsed, DecompSizePath(locals)) = PyInt(90)

\* some value of the dict, at any level, is a duration
RECURSIVE HasDuration(_)
HasDuration(d) ==
    \E key \in DOMAIN d :
        \/ d[key].t = "timedelta"
        \/ d[key].t = "dict" /\ HasDuration(d[key].v)

\* every elapsed_time of the dict, at any level, is a duration (resp. a float)
RECURSIVE ElapsedTimesAre(_, _)
ElapsedTimesAre(d, type) ==
    \A key \in DOMAIN d :
        /\ key = S("elapsed_time") => d[key].t = type
        /\ d[key].t = "dict" => ElapsedTimesAre(d[key].v, type)

\* C7: the JSON output is optional: a file is written if and only if fout is
\* given; what is returned is the parsed structure in both cases, and writing
\* the JSON (durations as seconds) leaves its durations durations.
C7_OptionalJson ==
    pc = "done" =>
        /\ outfile.written <=> fout.t # "none"
        /\ ret = PyDict(locals.parsed)
        /\ ElapsedTimesAre(ret.v, "timedelta")
        /\ outfile.written =>
               /\ SameButSeconds(ret.v, outfile.data)
               /\ ElapsedTimesAre(outfile.data, "float")

\* the call returned a structure with a duration and wrote the JSON
C7_Witness ==
    pc = "done" /\ outfile.written /\ ret.t = "dict" /\ HasDuration(ret.v)

\* C8: an exception raised while a line is scanned ends parse_compress at
\* that line: no later line is processed, nothing is returned and the JSON is
\* never written, the write coming only after the last line was scanned
\* without error.
C8_FailureAborts ==
    [][/\ error \notin {"none", "IOError"} => FALSE
       /\ error' \notin {"none", "IOError"}
              => pc' = "raised" /\ ret' = PyNone /\ outfile' = NotWritten
       /\ outfile'.written => pc' = "done" /\ error' = "none"]_vars

\* a line raised after lines were parsed, in a call that was given an fout
C8_Witness ==
    /\ pc = "raised" /\ error \notin {"none", "IOError"}
    /\ nread >= 2 /\ locals.parsed # EmptyDict /\ fout.t # "none"
    /\ ret = PyNone /\ outfile = NotWritten

\* the method records of parsed: parsed[fname][iteration][method] for every
\* file, every int key of the file and every method
MethodRecords(p) ==
    UNION {UNION {{p[f].v[i].v[m].v : m \in DOMAIN p[f].v[i].v}
                      : i \in {k \in DOMAIN p[f].v : k[1] = "i"}}
               : f \in DOMAIN p}

\* the keys of an entry that was filled, in the order of the scan, up to and
\* with its n-th key (elapsed_time and CPU_percent come from one line)
EntryOrder == <<"command", "elapsed_time", "CPU_percent", "size_bytes">>
FilledTo(entry, n) ==
    entry.t = "dict" /\ DOMAIN entry.v = {S(EntryOrder[j]) : j \in 1..n}

\* a method record filled in the fixed order: nothing yet; or a compress
\* entry filled to some key; or a compress entry with its four keys and a
\* decompress entry filled to some key
FilledInOrder(rec) ==
    \/ DOMAIN rec = {}
    \/ /\ DOMAIN rec = {S("compress")}
       /\ \E n \in 1..4 : FilledTo(rec[S("compress")], n)
    \/ /\ DOMAIN rec = {S("compress"), S("decompress")}
       /\ FilledTo(rec[S("compress")], 4)
       /\ \E n \in 1..4 : FilledTo(rec[S("decompress")], n)

\* C9 as stated: for any sequence of lines, every method's record is filled
\* in the fixed order, and a decompress entry exists only beside a compress
\* entry that holds command, elapsed_time, CPU_percent and size_bytes.
C9_AnySequence ==
    \A rec \in MethodRecords(locals.parsed) : FilledInOrder(rec)

\* C9, amended: the same, for the sequences of lines in which no 'Testing'
\* line is read while a capture flag other than catch_comp_cmd is still set.
C9_NoPendingFlag ==
    ~stale => \A rec \in MethodRecords(locals.parsed) : FilledInOrder(rec)

\* a 'Testing' block was cut short right after its 'Testing' line, and the
\* block of the next method was filled to its decompress time
C9_Witness ==
    /\ ~stale /\ error = "none"
    /\ \E r1, r2 \in MethodRecords(locals.parsed) :
           /\ DOMAIN r1 = {}
           /\ DOMAIN r2 = {S("compress"), S("decompress")}
           /\ FilledTo(r2[S("decompress")], 3)

\* the line is one of the two markers the chain tests before the capture of
\* the initial size
IsMarker(line) ==
    \/ StartsWith(RStrip(line, Whitespace), "Begin processing:")
    \/ StartsWith(RStrip(line, Whitespace), "Intial .fastq size:")

\* the size line is accepted: the size is stored, the capture is closed and
\* the skip counter is cleared
SizeAccepted(line) ==
    /\ error' = "none" /\ pc' = "scan"
    /\ locals' = [locals EXCEPT
           !.parsed = SetPath(@, InitialSizePath(locals),
                              PyInt(IntVal(SplitWS(line)[1]))),
           !.catch_initial_size = PyFalse,
           !.skip_lines = PyNone]

\* C10 as stated: the line after an 'Intial .fastq size:' line is skipped and
\* the line after it is the size line; the size is accepted when the base
\* name of the path on it equals the current file name, and otherwise the
\* scan aborts with an assertion failure.
C10_SkipOneThenSize ==
    [][/\ (pc = "scan" /\ branch = "intial" /\ nread' = nread + 1)
              => /\ error' = "none"
                 /\ locals' = [locals EXCEPT !.skip_lines = PyInt(0)]
       /\ (pc = "scan" /\ branch = "initial_skip" /\ nread' = nread + 1)
              => \A line \in Lines :
                     ReadLine(line) =>
                         IF /\ Len(SplitWS(line)) >= 2
                            /\ locals.fname.t = "str"
                            /\ Basename(SplitWS(line)[2]) = locals.fname.v
                         THEN SizeAccepted(line)
                         ELSE error' = "AssertionError" /\ pc' = "raised"]_vars

\* C10, amended: while the capture of the initial size is open, a marker line
\* ('Begin processing:', 'Intial .fastq size:') is handled as a marker and
\* leaves the capture open; the first other line is skipped and the next
\* other line is the size line.  A size line with an integer first field and
\* a path, read after a 'Begin processing:' line, is accepted only when the
\* base name of the path equals the current file name, and otherwise the scan
\* aborts with an assertion failure; any other size line aborts the scan with
\* another error.  The current file name is the base name of the second
\* ':'-separated field of the 'Begin processing:' line without its last
\* extension.
C10_InitialSize ==
    [][/\ (pc = "scan" /\ nread' = nread + 1 /\ Truthy(locals.catch_initial_size))
              => \A line \in Lines :
                     ReadLine(line) =>
                         IF IsMarker(line)
                         THEN /\ branch' \in {"begin", "intial"}
                              /\ Truthy(locals'.catch_initial_size)
                              /\ locals'.skip_lines \in {PyInt(0), PyInt(1)}
                         ELSE IF locals.skip_lines = PyInt(1)
                         THEN /\ error' = "none"
                              /\ locals' = [locals EXCEPT !.skip_lines = PyInt(0)]
                         ELSE IF /\ Len(SplitWS(line)) >= 2
                                 /\ IntOk(SplitWS(line)[1])
                                 /\ locals.fname.t = "str"
                         THEN IF Basename(SplitWS(line)[2]) = locals.fname.v
                              THEN SizeAccepted(line)
                              ELSE error' = "AssertionError" /\ pc' = "raised"
                         ELSE /\ error' \in {"IndexError", "ValueError",
                                             "UnboundLocalError"}
                              /\ pc' = "raised"
       /\ (pc = "scan" /\ nread' = nread + 1 /\ branch' = "begin")
              => \A line \in Lines :
                     (ReadLine(line) /\ IsMarker(line))
                         => locals'.fname =
                                PyStr(Splitext(Basename(Split(line, ":")[2]))[1])
      ]_vars

\* the size line of another file was read after the skipped line: the scan
\* aborted with an assertion failure
C10_Witness ==
    /\ pc = "raised" /\ error = "AssertionError" /\ branch = "initial_size"
    /\ GetPath(locals.parsed, InitialSizePath(locals)) = PyInt(90)
    /\ locals.fname = PyStr("a.fq")

(***************************************************************************)
(* Properties of parse_compress on a transcript in the script's format,    *)
(* under SpecFormat.                                                       *)
(***************************************************************************)
\* an entry that holds exactly command, elapsed_time, CPU_percent and
\* size_bytes, each of its type
FullEntry(entry) ==
    /\ FilledTo(entry, 4)
    /\ entry.v[S("command")].t = "str"
    /\ entry.v[S("elapsed_time")].t = "timedelta"
    /\ entry.v[S("CPU_percent")].t \in {"float", "nan"}
    /\ entry.v[S("size_bytes")].t = "int"

\* a file's dict: its initial size, and for every iteration and every method
\* a compress and a decompress entry, both full
FullFile(file) ==
    /\ file.t = "dict"
    /\ S("size_bytes") \in DOMAIN file.v /\ file.v[S("size_bytes")].t = "int"
    /\ \A i \in DOMAIN file.v \ {S("size_bytes")} :
           /\ i[1] = "i" /\ file.v[i].t = "dict"
           /\ \A m \in DOMAIN file.v[i].v :
                  /\ file.v[i].v[m].t = "dict"
                  /\ DOMAIN file.v[i].v[m].v = {S("compress"), S("decompress")}
                  /\ FullEntry(file.v[i].v[m].v[S("compress")])
                  /\ FullEntry(file.v[i].v[m].v[S("decompress")])

\* C6: for a transcript in the script's format, parse_compress returns a
\* structure that holds for every file its initial size_bytes and, for every
\* iteration and every method of the file, a compress and a decompress entry,
\* each holding exactly command, elapsed_time, CPU_percent and size_bytes
\* taken from the lines of its own block.
C6_FullStructure ==
    /\ pc = "raised" => error = "IOError"
    /\ (pc = "done" /\ gen.pos = "top")
           => /\ ret = PyDict(expected)
              /\ \A f \in DOMAIN ret.v : FullFile(ret.v[f])
              /\ DOMAIN ret.v = {S(FileNames[k]) : k \in 1..gen.file}

\* the call returned on a transcript of two files, the second with two
\* iterations of two methods, and printed a warning on the way
C6_Witness ==
    /\ pc = "done" /\ gen.pos = "top"
    /\ gen.file = 2 /\ gen.iter = 2 /\ gen.meth = 2
    /\ Len(stderr) > 0
    /\ ret = PyDict(expected)

=============================================================================
